---- MODULE Spec2Model ----
(***************************************************************************)
(* Model of Bot.py: the Telegram handler handle_video, its worker thread,  *)
(* the dubbing pipeline process_video and the helpers change_audio_speed   *)
(* and compress_video.                                                     *)
(*                                                                         *)
(* Times are integer milliseconds.  Real-valued quantities computed by the *)
(* code (fast_len, rate, slow, clip durations) are exact fractions         *)
(* <<numerator, denominator>> with a positive denominator.  Audio is       *)
(* represented by its number of samples at SampleRate samples per second.  *)
(* A name returned by tempfile.mktemp / NamedTemporaryFile is a random     *)
(* name that does not exist yet; it is modelled as the fresh token         *)
(* <<chat, variable, serial>>.  The encoder's temp_audiofile is the fixed  *)
(* literal "temp-audio.m4a" of the source.                                 *)
(***************************************************************************)
EXTENDS Integers, Sequences, FiniteSets, TLC

\* ------------------------------ bounds ---------------------------------
MaxReq == 2
MaxSegs == 2
MaxTick == 2
TickMs == 25
MaxTts == 2
TtsStep == 3
ClipTail == 10
SampleRate == 90
MAX_SIZE == 49 * 1024 * 1024

Chats == 1..MaxReq
Times == {k * TickMs : k \in 0..MaxTick}
\* clip durations: on a segment boundary, or ClipTail ms short of the last one
Durations == (Times \ {0}) \cup {MaxTick * TickMs - ClipTail}
TtsSamples == {k * TtsStep : k \in 0..MaxTts}
Sizes == {MAX_SIZE, MAX_SIZE + 1}

\* transcript segments: [start, end] with start <= end (text is opaque)
Segments == {s \in [start : Times, end : Times] : s.start <= s.end}
TranscriptsOfLen(n) == [1..n -> Segments]
Transcripts == UNION {TranscriptsOfLen(n) : n \in 0..MaxSegs}
\* the places where a call to the outside (Telegram, the file system, Whisper,
\* the translator, gTTS, librosa, moviepy/ffmpeg) may raise: named by the
\* stage of the worker, or by the call when a stage makes several
Faults ==
    {"download", "process_video", "extract", "loop", "synth", "fast", "fit",
     "assemble", "pv_audio", "pv_encode", "send", "send_api", "send_error",
     "progress", "delete_message"}

\* a video: its duration, the transcript Whisper yields for it and the
\* sample counts gTTS may produce for its translated texts, and the calls
\* that may fail while it is processed
Videos == [duration : Durations, segments : Transcripts, tts : {TtsSamples},
           faults : {Faults}]

\* the video used when several requests run concurrently
ConcVideos ==
    { [duration |-> TickMs, segments |-> <<[start |-> 0, end |-> TickMs]>>,
       tts |-> {TtsStep}, faults |-> {"loop"}] }

NoVideo == [duration |-> TickMs, segments |-> << >>, tts |-> {}, faults |-> {}]
NoFile == <<0, "None", 0>>
TempAudio == <<0, "temp-audio.m4a", 0>>
File(c, var, k) == <<c, var, k>>
SegFileVars == {"mp3", "wav_in", "wav_fast", "wav_adj"}

\* ------------------------------ arithmetic -----------------------------
Min(a, b) == IF a <= b THEN a ELSE b
Abs(x) == IF x < 0 THEN -x ELSE x

\* a / b rounded to the nearest integer, ties to even (Python round), a >= 0, b > 0
RoundDiv(a, b) ==
    LET q == a \div b
        r == a % b
    IN  IF 2 * r < b THEN q
        ELSE IF 2 * r > b THEN q + 1
        ELSE IF q % 2 = 0 THEN q ELSE q + 1

\* fractions <<n, d>>, d > 0
Frac(n, d) == <<n, d>>
FracLe(x, y) == x[1] * y[2] <= y[1] * x[2]
FracLt(x, y) == x[1] * y[2] < y[1] * x[2]
FracDiv(x, y) == <<x[1] * y[2], x[2] * y[1]>>
FracWithin(x, y, eps) == Abs(x[1] * y[2] - y[1] * x[2]) <= eps * x[2] * y[2]
One == <<1, 1>>

\* the duration in ms of n samples: len(y) / sr seconds
SamplesMs(n) == Frac(1000 * n, SampleRate)

\* librosa.effects.time_stretch: the output has round(len(y) / rate) samples
time_stretch(n, rate) == RoundDiv(n * rate[2], rate[1])

\* change_audio_speed(src, dst, rate): samples written to dst
change_audio_speed(n, rate) == time_stretch(n, rate)

\* librosa rejects rate <= 0
RateValid(rate) == rate[1] > 0

BaselineRate == Frac(11, 10)

\* ------------------------------ state ----------------------------------
VARIABLES
    inbox,      \* messages Telegram has not yet dispatched to handle_video
    pc,         \* per chat: position of the request's worker
    loc,        \* per chat: local variables of handle_video/worker/process_video
    fs,         \* names of the files that exist
    tmpAudioBy, \* the chat whose audio track temp-audio.m4a currently holds (0: none)
    wrote,      \* pairs <<file, chat>>: the chat has created or written the file
    status,     \* per chat: the status message
    chat        \* per chat: what was sent to it

vars == <<inbox, pc, loc, fs, tmpAudioBy, wrote, status, chat>>

\* local, out, comp, size: variables of handle_video and worker; the others
\* up to pv_out: variables of process_video.  History of the run, read by
\* the properties only: muxed (whose audio track the output got), calls (the
\* external calls process_video has completed), failed (where the exception
\* the worker caught was raised), ncomp (calls of compress_video).
InitLoc ==
    [ local |-> NoFile, video |-> NoVideo, faults |-> {},
      duration |-> 0, segments |-> << >>,
      i |-> 1, v_clips |-> << >>, a_clips |-> << >>,
      wav |-> NoFile, mp3 |-> NoFile, wav_in |-> NoFile, wav_fast |-> NoFile,
      n_in |-> 0, n_fast |-> 0,
      pv_out |-> NoFile, out |-> NoFile, comp |-> NoFile, size |-> 0,
      muxed |-> 0, calls |-> << >>, failed |-> "none", ncomp |-> 0 ]

\* per chat: progress messages, documents and error messages received, the
\* workers they came from, and whether a send_message to the chat failed
InitChat == [prog |-> 0, doc |-> 0, err |-> 0, from |-> {}, lost |-> FALSE]

InitRest ==
    /\ pc = [c \in Chats |-> "idle"]
    /\ loc = [c \in Chats |-> InitLoc]
    /\ fs = {}
    /\ tmpAudioBy = 0
    /\ wrote = {}
    /\ status = [c \in Chats |-> "none"]
    /\ chat = [c \in Chats |-> InitChat]

\* one request: any video of the bounded universe
Init ==
    /\ \E k \in {"video", "document", "other"}, v \in Videos :
          inbox = {[chat |-> 1, kind |-> k, video |-> IF k = "other" THEN NoVideo ELSE v]}
    /\ InitRest

\* MaxReq requests in flight, one per chat
InitConc ==
    /\ \E vs \in [Chats -> ConcVideos], ks \in [Chats -> {"video", "other"}] :
          inbox = {[chat |-> c, kind |-> ks[c],
                    video |-> IF ks[c] = "other" THEN NoVideo ELSE vs[c]] : c \in Chats}
    /\ InitRest

\* ------------------------------ helpers --------------------------------
Set(c, r) == [loc EXCEPT ![c] = r]
Goto(c, l) == pc' = [pc EXCEPT ![c] = l]
Create(c, files) ==
    /\ fs' = fs \cup files
    /\ wrote' = wrote \cup {<<f, c>> : f \in files}

\* an external call made at stage what can fail for this request
MayFail(c, what) == what \in loc[c].faults

\* lines 176-177: progress(text) is bot.send_message(cid, text) with the cid
\* of the handler invocation; n messages are delivered
Progress(c, n) == [chat EXCEPT ![c].prog = @ + n, ![c].from = @ \cup {c}]

\* a send_message to the chat raised instead
Lost(ch, c) == [ch EXCEPT ![c].lost = TRUE]

\* line 193: the document arrives in the chat
SendDocument(c) == [chat EXCEPT ![c].doc = @ + 1, ![c].from = @ \cup {c}]

\* lines 195 and 198: the error message arrives in the chat
SendErrorSilent(c) == chat
SendError(c) == [chat EXCEPT ![c].err = @ + 1, ![c].from = @ \cup {c}]

\* line 205: the handler starts the worker as a daemon thread and returns;
\* no handler invocation lasts as long as a worker
HandlerRunningWorker(c) == pc[c] \notin {"idle", "rejected", "download_failed", "done"}
HandlerRunning(c) == FALSE

\* ------------------------------ handle_video ---------------------------
\* lines 151-205: reject a non-video, else download to a fresh local file
\* and start the worker thread; a download error ends the request.
handle_video(m) ==
    LET c == m.chat IN
    /\ m \in inbox
    /\ pc[c] = "idle"
    /\ \A d \in Chats : ~HandlerRunning(d)
    /\ inbox' = inbox \ {m}
    /\ \/ /\ m.kind = "other"
          /\ Goto(c, "rejected")
          /\ UNCHANGED <<loc, fs, wrote, status>>
       \/ /\ m.kind # "other"
          /\ Create(c, {File(c, "local", 0)})
          /\ loc' = Set(c, [loc[c] EXCEPT !.local = File(c, "local", 0),
                                          !.video = m.video,
                                          !.faults = m.video.faults])
          /\ status' = [status EXCEPT ![c] = "processing"]
          /\ Goto(c, "process_video")
       \/ /\ m.kind # "other"
          /\ "download" \in m.video.faults
          /\ status' = [status EXCEPT ![c] = "download_error"]
          /\ Goto(c, "download_failed")
          /\ UNCHANGED <<loc, fs, wrote>>
    /\ UNCHANGED <<tmpAudioBy, chat>>

\* ------------------------------ process_video --------------------------
\* process_video's frame ends (return or exception): its locals are gone,
\* the worker's own variables (local, out, comp) remain
Unwind(l) ==
    [InitLoc EXCEPT !.local = l.local, !.out = l.out, !.comp = l.comp,
                    !.size = l.size, !.muxed = l.muxed, !.faults = l.faults,
                    !.failed = l.failed, !.ncomp = l.ncomp]

\* An exception raised at stage what propagates to the worker's except
\* clause (line 196); when it leaves process_video the worker's variable
\* out keeps the value None.
Fail(c, what) ==
    /\ Goto(c, "except")
    /\ loc' = Set(c, [Unwind(loc[c]) EXCEPT !.failed = what])

\* the external call of the current stage raises
RaiseAndGoOn(c) ==
    /\ Goto(c, "assemble")
    /\ loc' = Set(c, [loc[c] EXCEPT !.failed = pc[c]])
Raise(c) == Fail(c, pc[c])

\* the progress callback raises: the exception propagates like any other
ProgressFails(c, sent) ==
    /\ MayFail(c, "progress")
    /\ chat' = Lost(Progress(c, sent), c)
    /\ Fail(c, "progress")

\* the call what for segment i has returned
Called(l, what) == Append(l.calls, <<what, l.i>>)

\* lines 72-74: open the video, report its duration
pv_open(c) ==
    /\ pc[c] = "process_video"
    /\ \/ /\ loc' = Set(c, [loc[c] EXCEPT !.duration = loc[c].video.duration])
          /\ chat' = Progress(c, 1)
          /\ Goto(c, "extract")
       \/ /\ MayFail(c, pc[c])
          /\ Raise(c)
          /\ UNCHANGED chat
       \/ ProgressFails(c, 0)
    /\ UNCHANGED <<inbox, fs, tmpAudioBy, wrote, status>>

\* lines 76-78: extract the audio to a fresh wav and transcribe it
pv_transcribe(c) ==
    /\ pc[c] = "extract"
    /\ Create(c, {File(c, "wav", 0)})
    /\ \/ /\ loc' = Set(c, [loc[c] EXCEPT !.wav = File(c, "wav", 0),
                                          !.segments = loc[c].video.segments,
                                          !.i = 1,
                                          !.v_clips = << >>,
                                          !.a_clips = << >>,
                                          !.calls = <<<<"transcribe", 0>>>>])
          /\ Goto(c, "loop")
       \/ /\ MayFail(c, pc[c])
          /\ Raise(c)
    /\ UNCHANGED <<inbox, tmpAudioBy, status, chat>>

\* the window of segment s in a clip of duration d (lines 82, 85, 86)
SegSt(s) == s.start
SegEnUnclipped(s, d) == s.end
SegEn(s, d) == Min(s.end, d)
SegDur(s, d) == SegEn(s, d) - SegSt(s)

\* line 83: the segment starts at or after the end of the clip
BeyondStrict(s, d) == s.start > d
Beyond(s, d) == s.start >= d

\* line 87: the window is empty
DegenerateNegative(dur) == dur < 0
Degenerate(dur) == dur <= 0

\* lines 81-92: loop head of one iteration: loop exit, break, continue, or
\* translation of the segment's text between two progress messages
pv_segment(c) ==
    LET l == loc[c]
        s == l.segments[l.i]
    IN
    /\ pc[c] = "loop"
    /\ IF l.i > Len(l.segments) THEN
            /\ Goto(c, "assemble")
            /\ UNCHANGED <<loc, chat>>
       ELSE IF Beyond(s, l.duration) THEN
            /\ Goto(c, "assemble")
            /\ UNCHANGED <<loc, chat>>
       ELSE IF Degenerate(SegDur(s, l.duration)) THEN
            /\ loc' = Set(c, [l EXCEPT !.i = @ + 1])
            /\ UNCHANGED <<pc, chat>>
       ELSE \/ /\ chat' = Progress(c, 2)
               /\ loc' = Set(c, [l EXCEPT !.calls = Called(l, "translate")])
               /\ Goto(c, "synth")
            \/ /\ MayFail(c, pc[c])
               /\ chat' = Progress(c, 1)
               /\ Raise(c)
            \/ \E sent \in {0, 1} : ProgressFails(c, sent)
    /\ UNCHANGED <<inbox, fs, tmpAudioBy, wrote, status>>

\* lines 94-98: synthesize the translated text to a fresh mp3 and convert
\* it to a fresh wav of n samples
pv_synthesize(c) ==
    LET l == loc[c]
        mp3 == File(c, "mp3", l.i)
        wav_in == File(c, "wav_in", l.i)
    IN
    /\ pc[c] = "synth"
    /\ \/ \E n \in l.video.tts :
            /\ Create(c, {mp3, wav_in})
            /\ loc' = Set(c, [l EXCEPT !.mp3 = mp3, !.wav_in = wav_in, !.n_in = n,
                                       !.calls = Called(l, "synthesize")])
            /\ Goto(c, "fast")
       \/ /\ MayFail(c, pc[c])
          /\ Raise(c)
          /\ UNCHANGED <<fs, wrote>>
    /\ UNCHANGED <<inbox, tmpAudioBy, status, chat>>

\* lines 100-102: the 1.10x baseline stretch into a fresh wav
pv_baseline(c) ==
    LET l == loc[c]
        wav_fast == File(c, "wav_fast", l.i)
    IN
    /\ pc[c] = "fast"
    /\ \/ /\ Create(c, {wav_fast})
          /\ loc' = Set(c, [l EXCEPT !.wav_fast = wav_fast,
                                     !.n_fast = change_audio_speed(l.n_in, BaselineRate),
                                     !.calls = Called(l, "stretch")])
          /\ chat' = Progress(c, 1)
          /\ Goto(c, "fit")
       \/ /\ MayFail(c, pc[c])
          /\ Raise(c)
          /\ UNCHANGED <<fs, wrote, chat>>
       \/ /\ Create(c, {wav_fast})
          /\ ProgressFails(c, 0)
    /\ UNCHANGED <<inbox, tmpAudioBy, status>>

\* line 101: fast_len, the realized duration of the baseline-stretched audio
FastLen(n_fast) == SamplesMs(n_fast)

\* line 104: Case A, the baseline-stretched audio fits the window
CaseA(n_fast, dur) == FracLe(FastLen(n_fast), Frac(dur, 1))

\* line 105: rate = fast_len / dur
RateInverted(n_fast, dur) == FracDiv(Frac(dur, 1), FastLen(n_fast))
Rate(n_fast, dur) == FracDiv(FastLen(n_fast), Frac(dur, 1))

\* line 111: slow = dur / fast_len
SlowInverted(n_fast, dur) == FracDiv(FastLen(n_fast), Frac(dur, 1))
Slow(n_fast, dur) == FracDiv(Frac(dur, 1), FastLen(n_fast))

\* vid.subclipped(st, en): the duration of the subclip
Subclipped(st, en) == Frac(en - st, 1)

\* moviepy MultiplySpeed(factor): the clip plays factor times as fast and
\* lasts duration / factor
MultiplySpeedTimes(duration, factor) == <<duration[1] * factor[1], duration[2] * factor[2]>>
MultiplySpeed(duration, factor) == FracDiv(duration, factor)

\* AudioFileClip(path): the duration of a file of n samples
AudioFileClip(n) == SamplesMs(n)

\* lines 116-117: v_clips.append / a_clips.append
PrependClip(clips, clip) == <<clip>> \o clips
AppendClip(clips, clip) == Append(clips, clip)

\* lines 118-120: the per-segment files the loop body removes
SegmentCleanup(l) == {l.mp3, l.wav_in}

\* lines 104-120: fit the audio to the window (Case A) or the video to the
\* audio (Case B), append the pair, remove mp3 and wav_in
pv_fit(c) ==
    LET l == loc[c]
        s == l.segments[l.i]
        st == SegSt(s)
        en == SegEn(s, l.duration)
        dur == SegDur(s, l.duration)
        wav_adj == File(c, "wav_adj", l.i)
        rate == Rate(l.n_fast, dur)
        slow == Slow(l.n_fast, dur)
        n_adj == change_audio_speed(l.n_fast, rate)
        plain == [seg |-> l.i, t0 |-> st, t1 |-> en, effects |-> << >>,
                  duration |-> Subclipped(st, en)]
        a_adj == [seg |-> l.i, file |-> wav_adj, src |-> l.n_fast, rate |-> rate,
                  samples |-> n_adj, duration |-> AudioFileClip(n_adj)]
        a_fast == [seg |-> l.i, file |-> l.wav_fast, src |-> l.n_fast, rate |-> One,
                   samples |-> l.n_fast, duration |-> AudioFileClip(l.n_fast)]
        sped == [plain EXCEPT !.effects = <<slow>>,
                              !.duration = MultiplySpeed(plain.duration, slow)]
        Append2(v, a, files, called) ==
            /\ loc' = Set(c, [l EXCEPT !.v_clips = AppendClip(@, v),
                                       !.a_clips = AppendClip(@, a),
                                       !.calls = called,
                                       !.i = @ + 1])
            /\ fs' = (fs \cup files) \ SegmentCleanup(l)
            /\ wrote' = wrote \cup {<<f, c>> : f \in files}
            /\ Goto(c, "loop")
    IN
    /\ pc[c] = "fit"
    /\ IF CaseA(l.n_fast, dur)
       THEN IF RateValid(rate)
            THEN \/ Append2(plain, a_adj, {wav_adj}, Called(l, "stretch_fit"))
                 \/ /\ MayFail(c, pc[c])
                    /\ Raise(c)
                    /\ UNCHANGED <<fs, wrote>>
            ELSE /\ Fail(c, "rate")
                 /\ UNCHANGED <<fs, wrote>>
       ELSE IF FracLt(slow, One)
            THEN Append2(sped, a_fast, {}, l.calls)
            ELSE Append2(plain, a_fast, {}, l.calls)
    /\ UNCHANGED <<inbox, tmpAudioBy, status, chat>>

\* lines 122-126: concatenate the clips (moviepy raises on an empty list)
\* and choose the output name
pv_assemble(c) ==
    LET l == loc[c] IN
    /\ pc[c] = "assemble"
    /\ IF l.v_clips = << >>
       THEN Fail(c, "empty")
       ELSE \/ /\ loc' = Set(c, [l EXCEPT !.pv_out = File(c, "out", 0),
                                          !.calls = Append(@, <<"concatenate", 0>>)])
               /\ Goto(c, "pv_audio")
            \/ /\ MayFail(c, pc[c])
               /\ Raise(c)
    /\ UNCHANGED <<inbox, fs, tmpAudioBy, wrote, status, chat>>

\* write_videofile, first half: the audio track is written to the file
\* named by temp_audiofile (line 132)
WriteTempAudio(c) ==
    /\ fs' = fs \cup {TempAudio}
    /\ wrote' = wrote \cup {<<TempAudio, c>>}
    /\ tmpAudioBy' = c

\* lines 127-135, audio pass
pv_write_audio(c) ==
    /\ pc[c] = "pv_audio"
    /\ \/ /\ WriteTempAudio(c)
          /\ loc' = Set(c, [loc[c] EXCEPT !.calls = Append(@, <<"encode", 0>>)])
          /\ Goto(c, "pv_encode")
       \/ /\ MayFail(c, pc[c])
          /\ Raise(c)
          /\ UNCHANGED <<fs, wrote, tmpAudioBy>>
    /\ UNCHANGED <<inbox, status, chat>>

\* lines 127-139, video pass, then remove the extracted wav and return out;
\* the pass fails when the temporary audio file is no longer there
pv_encode(c) ==
    LET l == loc[c] IN
    /\ pc[c] = "pv_encode"
    /\ \/ /\ TempAudio \in fs
          /\ \E sz \in Sizes :
               loc' = Set(c, [Unwind(l) EXCEPT !.out = l.pv_out, !.size = sz,
                                               !.muxed = tmpAudioBy])
          /\ fs' = ((fs \cup {l.pv_out}) \ {TempAudio}) \ {l.wav}
          /\ wrote' = wrote \cup {<<l.pv_out, c>>}
          /\ tmpAudioBy' = 0
          /\ Goto(c, "worker_size")
       \/ /\ MayFail(c, pc[c]) \/ TempAudio \notin fs
          /\ \E partial \in BOOLEAN :
               /\ fs' = IF partial THEN fs \cup {l.pv_out} ELSE fs
               /\ wrote' = IF partial THEN wrote \cup {<<l.pv_out, c>>} ELSE wrote
          /\ Raise(c)
          /\ UNCHANGED tmpAudioBy
    /\ UNCHANGED <<inbox, status, chat>>

\* ------------------------------ worker ---------------------------------
\* lines 183-186: the size check; an oversized output gets a fresh name for
\* the compressed file and a progress message
worker_size(c) ==
    LET l == loc[c] IN
    /\ pc[c] = "worker_size"
    /\ IF l.size > MAX_SIZE
       THEN \/ /\ loc' = Set(c, [l EXCEPT !.comp = File(c, "comp", 0)])
               /\ chat' = Progress(c, 1)
               /\ Goto(c, "compress")
            \/ ProgressFails(c, 0)
       ELSE /\ Goto(c, "send")
            /\ UNCHANGED <<loc, chat>>
    /\ UNCHANGED <<inbox, fs, tmpAudioBy, wrote, status>>

\* line 187 and compress_video lines 54-56: the clip is opened and
\* clip.resize(width=480) is evaluated.  The clip is a moviepy 2 clip (the
\* import of line 11 and subclipped, with_effects, MultiplySpeed of lines
\* 109-115 exist in moviepy 2 only), which has resized and no attribute
\* resize: AttributeError.  Lines 57-67 and 188-189 are not reached.
compress_video(c) ==
    /\ pc[c] = "compress"
    /\ Goto(c, "except")
    /\ loc' = Set(c, [Unwind(loc[c]) EXCEPT !.failed = "compress", !.ncomp = @ + 1])
    /\ UNCHANGED <<inbox, fs, tmpAudioBy, wrote, status, chat>>

\* lines 190-195: deliver the document; a Telegram API error is reported
\* in the chat, any other exception reaches the except clause
worker_send(c) ==
    /\ pc[c] = "send"
    /\ \/ /\ chat' = SendDocument(c)
          /\ Goto(c, "finally")
          /\ UNCHANGED loc
       \/ /\ MayFail(c, "send_api")
          /\ chat' = SendError(c)
          /\ Goto(c, "finally")
          /\ UNCHANGED loc
       \/ /\ MayFail(c, "send_api")
          /\ MayFail(c, "send_error")
          /\ chat' = Lost(chat, c)
          /\ Fail(c, "send_error")
       \/ /\ MayFail(c, pc[c])
          /\ Raise(c)
          /\ UNCHANGED chat
    /\ UNCHANGED <<inbox, fs, tmpAudioBy, wrote, status>>

\* lines 196-198: report the error (sending the report may itself fail)
worker_except(c) ==
    /\ pc[c] = "except"
    /\ \/ chat' = SendError(c)
       \/ /\ MayFail(c, "send_error")
          /\ chat' = Lost(chat, c)
    /\ Goto(c, "finally")
    /\ UNCHANGED <<inbox, loc, fs, tmpAudioBy, wrote, status>>

\* lines 200-202: the files the finally clause removes
FinallyRemovesOut(l) == {l.out}
FinallyRemoves(l) == {l.local, l.out}

\* lines 199-203: remove local and out when they exist, delete the status
\* message (the deletion may fail); the thread ends and its variables go
\* (the history field failed stays)
worker_finally(c) ==
    LET l == loc[c] IN
    /\ pc[c] = "finally"
    /\ fs' = fs \ FinallyRemoves(l)
    /\ \/ status' = [status EXCEPT ![c] = "deleted"]
       \/ /\ MayFail(c, "delete_message")
          /\ status' = [status EXCEPT ![c] = "delete_failed"]
    /\ loc' = Set(c, [InitLoc EXCEPT !.failed = l.failed])
    /\ Goto(c, "done")
    /\ UNCHANGED <<inbox, tmpAudioBy, wrote, chat>>

\* ------------------------------ specification --------------------------
\* the steps of the worker thread of chat c
Worker(c) ==
    \/ pv_open(c)
    \/ pv_transcribe(c)
    \/ pv_segment(c)
    \/ pv_synthesize(c)
    \/ pv_baseline(c)
    \/ pv_fit(c)
    \/ pv_assemble(c)
    \/ pv_write_audio(c)
    \/ pv_encode(c)
    \/ worker_size(c)
    \/ compress_video(c)
    \/ worker_send(c)
    \/ worker_except(c)
    \/ worker_finally(c)

Next ==
    \/ \E m \in inbox : handle_video(m)
    \/ \E c \in Chats : pv_open(c)
    \/ \E c \in Chats : pv_transcribe(c)
    \/ \E c \in Chats : pv_segment(c)
    \/ \E c \in Chats : pv_synthesize(c)
    \/ \E c \in Chats : pv_baseline(c)
    \/ \E c \in Chats : pv_fit(c)
    \/ \E c \in Chats : pv_assemble(c)
    \/ \E c \in Chats : pv_write_audio(c)
    \/ \E c \in Chats : pv_encode(c)
    \/ \E c \in Chats : worker_size(c)
    \/ \E c \in Chats : compress_video(c)
    \/ \E c \in Chats : worker_send(c)
    \/ \E c \in Chats : worker_except(c)
    \/ \E c \in Chats : worker_finally(c)

Spec == Init /\ [][Next]_vars

SpecConc == InitConc /\ [][Next]_vars

\* a started thread keeps running: every call it makes returns or raises
FairSpec == Spec /\ \A c \in Chats : WF_vars(Worker(c))

TypeOK ==
    /\ pc \in [Chats -> {"idle", "rejected", "download_failed", "process_video",
                         "extract", "loop", "synth", "fast", "fit", "assemble",
                         "pv_audio", "pv_encode", "worker_size", "compress",
                         "send", "except", "finally", "done"}]
    /\ tmpAudioBy \in 0..MaxReq
    /\ \A c \in Chats : Len(loc[c].v_clips) <= MaxSegs + 1

\* ------------------------------ properties -----------------------------
\* process_video's frame is live after the transcript is known
InLoop(c) == pc[c] \in {"loop", "synth", "fast", "fit", "assemble", "pv_audio", "pv_encode"}
FracEq(x, y) == x[1] * y[2] = y[1] * x[2]
Pairs(c) == 1..Len(loc[c].v_clips)
IsCaseA(a) == a.file[2] = "wav_adj"
Window(v) == v.t1 - v.t0

\* index of the first segment with start >= d (Len + 1 when there is none)
FirstBeyond(segs, d) ==
    IF \E j \in 1..Len(segs) : segs[j].start >= d
    THEN CHOOSE j \in 1..Len(segs) :
            /\ segs[j].start >= d
            /\ \A h \in 1..(j - 1) : segs[h].start < d
    ELSE Len(segs) + 1

\* indices of the segments that are not dropped, in transcript order
KeptIdx(segs, d) ==
    SelectSeq([j \in 1..Len(segs) |-> j],
              LAMBDA j : /\ j < FirstBeyond(segs, d)
                         /\ (IF segs[j].end <= d THEN segs[j].end ELSE d) > segs[j].start)

\* C1: the first segment with start >= clip duration contributes no clip
\* pair and neither does any later segment, whatever their start and end:
\* no clip, no per-segment file and no loop iteration lies at or after it.
C1_StopsAtFirstBeyond ==
    \A c \in Chats :
        LET l == loc[c]
            fb == FirstBeyond(l.segments, l.duration)
        IN  InLoop(c) =>
            /\ \A k \in 1..Len(l.v_clips) : l.v_clips[k].seg < fb
            /\ \A k \in 1..Len(l.a_clips) : l.a_clips[k].seg < fb
            /\ l.i <= fb
            /\ \A w \in wrote :
                 (w[1][1] = c /\ w[1][2] \in SegFileVars) => w[1][3] < fb

\* the loop has ended at a segment beyond the clip and a later segment
\* with a non-empty window inside the clip was left unprocessed
C1_Witness ==
    \E c \in Chats :
        LET l == loc[c] IN
        /\ pc[c] = "assemble"
        /\ l.i <= Len(l.segments)
        /\ l.segments[l.i].start >= l.duration
        /\ \E j \in (l.i + 1)..Len(l.segments) :
             /\ l.segments[j].start < l.duration
             /\ l.segments[j].end > l.segments[j].start

\* C2: for a segment with start < clip duration < end the window used
\* everywhere is clip duration - start: the subclip range, the Case A/B
\* comparison, rate = fast_len / dur and slow = dur / fast_len.
C2_TruncatedWindow ==
    \A c \in Chats : \A k \in Pairs(c) :
        LET l == loc[c]
            v == l.v_clips[k]
            a == l.a_clips[k]
            s == l.segments[v.seg]
            dur == l.duration - s.start
        IN  (s.start < l.duration /\ s.end > l.duration) =>
            /\ v.t0 = s.start
            /\ v.t1 = l.duration
            /\ IF 1000 * a.src <= dur * SampleRate
               THEN /\ IsCaseA(a)
                    /\ FracEq(a.rate, <<1000 * a.src, SampleRate * dur>>)
                    /\ v.effects = << >>
               ELSE /\ ~IsCaseA(a)
                    /\ Len(v.effects) = 1
                    /\ FracEq(v.effects[1], <<dur * SampleRate, 1000 * a.src>>)

\* two truncated segments were paired, one as Case A and one as Case B
C2_Witness ==
    \E c \in Chats : \E k1, k2 \in Pairs(c) :
        LET l == loc[c] IN
        /\ l.segments[l.v_clips[k1].seg].end > l.duration
        /\ l.segments[l.v_clips[k2].seg].end > l.duration
        /\ IsCaseA(l.a_clips[k1])
        /\ ~IsCaseA(l.a_clips[k2])

\* C3: the two clip lists always have the same length and the k-th video
\* clip and the k-th audio clip both come from the k-th non-dropped
\* segment; at assembly the lists hold exactly the non-dropped segments.
C3_OrderedPairs ==
    \A c \in Chats :
        LET l == loc[c]
            kept == KeptIdx(l.segments, l.duration)
        IN  /\ Len(l.v_clips) = Len(l.a_clips)
            /\ Len(l.v_clips) <= Len(kept)
            /\ \A k \in Pairs(c) :
                 /\ l.v_clips[k].seg = kept[k]
                 /\ l.a_clips[k].seg = kept[k]
                 /\ l.v_clips[k].t0 = l.segments[kept[k]].start
            /\ pc[c] = "assemble" => Len(l.v_clips) = Len(kept)

\* assembly is reached with two pairs
C3_Witness ==
    \E c \in Chats : pc[c] = "assemble" /\ Len(loc[c].v_clips) >= 2

\* C4: a speed effect applied to a video subclip has 0 < factor < 1, and a
\* Case A segment (fast_len <= dur) has no speed effect.
C4_SlowFactor ==
    \A c \in Chats : \A k \in Pairs(c) :
        LET v == loc[c].v_clips[k]
            a == loc[c].a_clips[k]
        IN  /\ \A e \in 1..Len(v.effects) :
                 /\ v.effects[e][2] > 0
                 /\ 0 < v.effects[e][1]
                 /\ v.effects[e][1] < v.effects[e][2]
            /\ (1000 * a.src <= Window(v) * SampleRate) => v.effects = << >>

\* a pair with a speed effect and a Case A pair exist
C4_Witness ==
    \E c \in Chats : \E k1, k2 \in Pairs(c) :
        /\ loc[c].v_clips[k1].effects # << >>
        /\ IsCaseA(loc[c].a_clips[k2])

C6_CaseAFillsWindow ==
    \A c \in Chats : \A k \in Pairs(c) :
        LET v == loc[c].v_clips[k]
            a == loc[c].a_clips[k]
        IN  (1000 * a.src <= Window(v) * SampleRate) =>
            /\ IsCaseA(a)
            /\ FracEq(a.duration, SamplesMs(a.samples))
            /\ FracWithin(a.duration, Frac(Window(v), 1), 10)

\* a Case A pair whose window is not a whole number of samples and whose
\* audio was really stretched (rate < 1)
C6_Witness ==
    \E c \in Chats : \E k \in Pairs(c) :
        LET v == loc[c].v_clips[k]
            a == loc[c].a_clips[k]
        IN  /\ IsCaseA(a)
            /\ a.samples # a.src
            /\ 1000 * a.samples # Window(v) * SampleRate

\* C7: the audio clip and the video clip of every appended pair have equal
\* durations up to the tolerance (10 ms), in Case A and in Case B.
C7_PairDurationsEqual ==
    \A c \in Chats : \A k \in Pairs(c) :
        FracWithin(loc[c].a_clips[k].duration, loc[c].v_clips[k].duration, 10)

\* a timeline holding a Case A pair and a Case B pair reaches assembly
C7_Witness ==
    \E c \in Chats : \E k1, k2 \in Pairs(c) :
        /\ pc[c] = "assemble"
        /\ IsCaseA(loc[c].a_clips[k1])
        /\ loc[c].v_clips[k2].effects # << >>

\* the per-segment temp files of chat c that exist
SegFiles(c) == {f \in fs : f[1] = c /\ f[2] \in SegFileVars}
\* the files created for chat c's request that exist
OwnFiles(c) == {f \in fs : f[1] = c}
Returned(c) == pc[c] \in {"worker_size", "compress", "send"}

\* C8: once process_video has returned, none of the per-segment temp
\* files (mp3, wav_in, wav_fast, wav_adj) of the request exists.
C8_SegmentFilesDeleted ==
    \A c \in Chats : Returned(c) => SegFiles(c) = {}

\* C9: when the worker has terminated, no temp file created for the
\* request exists any more.
C9_NoFilesAfterWorker ==
    \A c \in Chats : pc[c] = "done" => OwnFiles(c) = {}

\* C10: no intermediate file is written by two workers.
C10_DisjointFiles ==
    \A f \in {w[1] : w \in wrote} :
        Cardinality({c \in Chats : <<f, c>> \in wrote}) <= 1

\* ------------------------------ failure handling -----------------------
\* the values of failed that name a failed call of process_video to one of
\* its collaborators
PipelineFailures ==
    {"process_video", "extract", "loop", "synth", "fast", "fit", "rate",
     "assemble", "empty", "pv_audio", "pv_encode"}
NoDup(q) == \A j, k \in DOMAIN q : j # k => q[j] # q[k]

\* C11: no call to a collaborator is made twice for the same segment and
\* stage; once such a call has failed the worker is in its except/finally
\* path or has ended: process_video's frame is gone (no later segment, no
\* assembly, no encode), the worker holds no output path and no document
\* has been sent.
C11_AbortOnFailure ==
    \A c \in Chats :
        /\ NoDup(loc[c].calls)
        /\ loc[c].failed \in PipelineFailures =>
              /\ pc[c] \in {"except", "finally", "done"}
              /\ loc[c].calls = << >>
              /\ loc[c].v_clips = << >>
              /\ loc[c].out = NoFile
              /\ chat[c].doc = 0

\* the synthesizer fails on the second segment after the first was fitted
C11_Witness ==
    \E c \in Chats :
        /\ pc[c] = "finally"
        /\ loc[c].failed = "synth"
        /\ File(c, "wav_fast", 1) \in fs
        /\ chat[c].err = 1

\* C12: the worker delivers an output of at most MAX_SIZE bytes unchanged
\* without calling compress_video; for a larger output compress_video is
\* called once, it yields the re-encoded file (compress_video itself does
\* not raise), the oversized original is removed and the re-encoded file
\* is what is delivered.
C12_SizeGovernor ==
    \A c \in Chats :
        /\ pc[c] = "send" =>
              IF loc[c].size <= MAX_SIZE
              THEN loc[c].out = File(c, "out", 0) /\ loc[c].ncomp = 0
              ELSE /\ loc[c].out = File(c, "comp", 0)
                   /\ loc[c].ncomp = 1
                   /\ File(c, "out", 0) \notin fs
        /\ loc[c].ncomp <= 1
        /\ loc[c].failed # "compress"

\* C13: the progress callback is observational: whatever the callback does
\* when invoked, the run continues as it would have; in particular no run
\* of the worker is diverted to the except clause by the callback.
C13_ProgressObservational ==
    \A c \in Chats : loc[c].failed # "progress"

\* a worker is between the start of its thread and the end of it
Running(c) == pc[c] \notin {"idle", "rejected", "download_failed", "done"}

\* C14: a message waiting in the inbox can be handled whatever the workers
\* of the other chats are doing, and everything a chat has received was
\* sent by its own worker.
C14_AcceptsWhileRunning ==
    /\ \A m \in inbox : ENABLED handle_video(m)
    /\ \A c \in Chats : chat[c].from \subseteq {c}

\* the second request was accepted while the first worker was encoding,
\* and each chat has the progress messages of its own stage
C14_Witness ==
    /\ pc[1] = "pv_encode"
    /\ pc[2] = "extract"
    /\ chat[1].prog = 4
    /\ chat[2].prog = 1

\* C15: an iteration whose segment starts inside the clip and has an empty
\* window only advances to the next segment: the clip lists, the record of
\* calls, the files, the chat and every other local stay as they are, no
\* exception is raised and the loop goes on.
C15_DegenerateSkipped ==
    [][\A c \in Chats :
          LET l == loc[c] IN
          ( /\ pc[c] = "loop"
            /\ l.i <= Len(l.segments)
            /\ l.segments[l.i].start < l.duration
            /\ Min(l.segments[l.i].end, l.duration) - l.segments[l.i].start <= 0
            /\ <<pc[c], loc[c], chat[c]>>' # <<pc[c], loc[c], chat[c]>> )
          => /\ pc'[c] = "loop"
             /\ loc'[c] = [l EXCEPT !.i = @ + 1]
             /\ chat' = chat
             /\ fs' = fs
             /\ wrote' = wrote]_vars

\* an empty-window segment was passed over and a later segment was fitted
C15_Witness ==
    \E c \in Chats :
        /\ InLoop(c)
        /\ \E j \in 1..(loc[c].i - 1) :
              /\ j <= Len(loc[c].segments)
              /\ loc[c].segments[j].start < loc[c].duration
              /\ Min(loc[c].segments[j].end, loc[c].duration)
                    - loc[c].segments[j].start <= 0
              /\ \E k \in Pairs(c) : loc[c].v_clips[k].seg > j

\* C16: the rate of the second stretch pass of Case A satisfies
\* 0 < rate <= 1 whatever the synthesizer produced, and the stretch engine
\* never rejects a rate.
C16_RatesPositive ==
    \A c \in Chats :
        /\ pc[c] = "fit" =>
              LET l == loc[c]
                  dur == SegDur(l.segments[l.i], l.duration)
                  rate == Rate(l.n_fast, dur)
              IN  CaseA(l.n_fast, dur) =>
                     /\ FracLt(Frac(0, 1), rate)
                     /\ FracLe(rate, One)
        /\ loc[c].failed # "rate"

\* C17: when the assembly is reached the clip lists hold at least one pair,
\* and no run fails because the lists were empty.
C17_AssemblyNonEmpty ==
    \A c \in Chats :
        /\ pc[c] = "assemble" => loc[c].v_clips # << >>
        /\ loc[c].failed # "empty"

\* C18: as long as no send_message to the chat has failed, the chat has
\* received at most one of: the document, one error message; when the
\* worker has ended it has received exactly one; and every started worker
\* ends: from some point on no worker is running.
C18_OneOutcome ==
    /\ [](\A c \in Chats :
             ~chat[c].lost =>
                /\ chat[c].doc + chat[c].err <= 1
                /\ pc[c] = "done" => chat[c].doc + chat[c].err = 1)
    /\ <>[](\A c \in Chats : ~Running(c))

\* a worker whose pipeline failed after progress was reported has ended
\* with the error message as its only outcome
C18_Witness ==
    \E c \in Chats :
        /\ pc[c] = "done"
        /\ ~chat[c].lost
        /\ chat[c].prog > 0
        /\ chat[c].err = 1
        /\ chat[c].doc = 0

\* C19: while the worker runs the uploaded file exists and the status
\* message stands; the step that ends the worker removes the uploaded file
\* and the file the worker's variable out names, and attempts to delete the
\* status message; after it the uploaded file is gone.
C19_FinallyCleansUp ==
    /\ [](\A c \in Chats :
             /\ Running(c) => File(c, "local", 0) \in fs /\ status[c] = "processing"
             /\ pc[c] = "done" =>
                   /\ File(c, "local", 0) \notin fs
                   /\ status[c] \in {"deleted", "delete_failed"})
    /\ [][\A c \in Chats :
             pc[c] = "finally" /\ pc'[c] # "finally" =>
                /\ pc'[c] = "done"
                /\ loc[c].local \notin fs'
                /\ loc[c].out \notin fs'
                /\ status'[c] \in {"deleted", "delete_failed"}]_vars

\* the worker delivered the document, removed both files and could not
\* delete the status message
C19_Witness ==
    \E c \in Chats :
        /\ pc[c] = "done"
        /\ chat[c].doc = 1
        /\ status[c] = "delete_failed"
        /\ {File(c, "local", 0), File(c, "out", 0)} \cap fs = {}
        /\ <<File(c, "out", 0), c>> \in wrote

====
